---- MODULE Spec2Model ----
(***************************************************************************)
(* The Caterwaul Ruby parser (src/ruby-parser.js): syntax nodes with       *)
(* comments and positions, the combinatory expression grammar with its     *)
(* eager precedence rotation, and the offset -> {line, column} table.      *)
(*                                                                         *)
(* Input text is a sequence of one-character strings; the character at the *)
(* JavaScript offset k is s[k + 1].  The parser combinators of             *)
(* caterwaul.parser are not part of the repository; they are modelled as   *)
(* functions of parser states, with ordered choice.                        *)
(***************************************************************************)
EXTENDS Integers, Sequences, FiniteSets, TLC

VARIABLES input, pc, tree, endpos, table, passes, thrown

vars == <<input, pc, tree, endpos, table, passes, thrown>>

----------------------------------------------------------------------------
(* Character classes of the terminals' regular expressions.                *)

Digits == {"0", "1", "2", "3", "4", "5", "6", "7", "8", "9"}

OctalDigits == {"0", "1", "2", "3", "4", "5", "6", "7"}

HexDigits == Digits \cup {"a", "b", "c", "d", "e", "f", "A", "B", "C", "D", "E", "F"}

Letters == {"a", "b", "c", "d", "e", "f", "g", "h", "i", "j", "k", "l", "m",
            "n", "o", "p", "q", "r", "s", "t", "u", "v", "w", "x", "y", "z",
            "A", "B", "C", "D", "E", "F", "X", "Y", "Z"}

\* \w
WordChars == Letters \cup Digits \cup {"_"}

\* \s
SpaceChars == {" ", "\t", "\n", "\r", "\f"}

\* the characters '.' does not match, and the class [\n\r]
LineBreaks == {"\n", "\r"}

\* charCodeAt(k) === 10
IsNewline(ch) == ch = "\n"

\* the end offset of the longest run of characters of class C that starts at offset i
RECURSIVE RunOf(_, _, _)
RunOf(s, i, C) == IF i < Len(s) /\ s[i + 1] \in C THEN RunOf(s, i + 1, C) ELSE i

\* the same for the characters outside C
RECURSIVE RunNotOf(_, _, _)
RunNotOf(s, i, C) == IF i < Len(s) /\ s[i + 1] \notin C THEN RunNotOf(s, i + 1, C) ELSE i

\* whether the character at offset i exists and belongs to C
Has(s, i, C) == i < Len(s) /\ s[i + 1] \in C

NoMatch == 0 - 1

\* /\s+/
re_whitespace(s, i) ==
  LET e == RunOf(s, i, SpaceChars) IN IF e > i THEN e ELSE NoMatch

\* the comment pattern when it may match nothing: /(?:#.*[\n\r]{1,2})?/
re_line_comment_or_nothing(s, i) ==
  IF ~Has(s, i, {"#"}) THEN i
  ELSE LET e == RunNotOf(s, i + 1, LineBreaks) IN
       IF ~Has(s, e, LineBreaks) THEN i
       ELSE IF Has(s, e + 1, LineBreaks) THEN e + 2 ELSE e + 1

\* /#.*[\n\r]{1,2}/
re_line_comment(s, i) ==
  IF ~Has(s, i, {"#"}) THEN NoMatch
  ELSE LET e == RunNotOf(s, i + 1, LineBreaks) IN
       IF ~Has(s, e, LineBreaks) THEN NoMatch
       ELSE IF Has(s, e + 1, LineBreaks) THEN e + 2 ELSE e + 1

\* /\w+[?!]?/
re_identifier(s, i) ==
  LET e == RunOf(s, i, WordChars) IN
  IF e = i THEN NoMatch
  ELSE IF Has(s, e, {"?", "!"}) THEN e + 1 ELSE e

\* /\$\w+[?!]?/
re_global(s, i) == IF Has(s, i, {"$"}) THEN re_identifier(s, i + 1) ELSE NoMatch

\* /@\w+[?!]?/
re_instance_variable(s, i) == IF Has(s, i, {"@"}) THEN re_identifier(s, i + 1) ELSE NoMatch

\* /:/
re_colon(s, i) == IF Has(s, i, {":"}) THEN i + 1 ELSE NoMatch

\* (?:[Ee][-+]?\d{1,3})? at offset i: the end offset, i when the group matches nothing
ExponentEnd(s, i) ==
  IF ~Has(s, i, {"e", "E"}) THEN i
  ELSE LET k == IF Has(s, i + 1, {"-", "+"}) THEN i + 2 ELSE i + 1
           e == RunOf(s, k, Digits)
       IN IF e = k THEN i ELSE IF e > k + 3 THEN k + 3 ELSE e

\* /\d+\.\d+(?:[Ee][-+]?\d{1,3})?|\d+|0x[0-9a-fA-F]+|0[0-7]+/
re_number(s, i) ==
  LET d  == RunOf(s, i, Digits)
      f  == RunOf(s, d + 1, Digits)
      h  == RunOf(s, i + 2, HexDigits)
      o  == RunOf(s, i + 1, OctalDigits)
  IN IF d > i /\ Has(s, d, {"."}) /\ f > d + 1 THEN ExponentEnd(s, f)
     ELSE IF d > i THEN d
     ELSE IF Has(s, i, {"0"}) /\ Has(s, i + 1, {"x"}) /\ h > i + 2 THEN h
     ELSE IF Has(s, i, {"0"}) /\ o > i + 1 THEN o
     ELSE NoMatch

\* (?:[^\\\/]|\\.)*\/ from offset i
RECURSIVE RegexpBody(_, _)
RegexpBody(s, i) ==
  IF i >= Len(s) THEN NoMatch
  ELSE IF s[i + 1] = "/" THEN i + 1
  ELSE IF s[i + 1] = "\\"
       THEN IF i + 1 < Len(s) /\ s[i + 2] \notin LineBreaks THEN RegexpBody(s, i + 2) ELSE NoMatch
  ELSE RegexpBody(s, i + 1)

\* /\/(?:[^\\\/]|\\.)*\//
re_regexp(s, i) == IF Has(s, i, {"/"}) THEN RegexpBody(s, i + 1) ELSE NoMatch

----------------------------------------------------------------------------
(* JavaScript values: strings, arrays, undefined, and syntax nodes.        *)

Undefined == [t |-> "undefined"]

\* the value a throwing call is replaced by (x.comment on a string, a method of undefined)
TypeError == [t |-> "TypeError"]

Str(chars) == [t |-> "string", chars |-> chars]

Arr(items) == [t |-> "array", items |-> items]

\* _position before positional() has run
Null == [t |-> "null"]

\* _position as positional() sets it: a raw offset of the input
Offset(k) == [t |-> "offset", at |-> k]

\* an entry of the position table
Resolved(l, c) == [t |-> "resolved", line |-> l, column |-> c]

\* $.ruby.syntax, the second branch of ctor: data, no comments, no position, the children
\* pushed.  it._comments = [] makes a new array; _comments holds a reference to it, so the
\* node records which array it holds (array, the name a of the array made here) beside what
\* the array holds (comments).
new_node(d, xs, a) ==
  [t |-> "node", data |-> d, kids |-> xs, comments |-> <<>>, array |-> a, position |-> Null]

\* the name of an array that is made and held by no node afterwards
Unkept == 0 - 1

IsNode(v) == v.t = "node"

comments(n) == n.comments

\* comment(c) = this -se- it._comments.push(c)
comment(n, c) == [n EXCEPT !.comments = Append(@, c)]

\* position(p) with an argument
position(n, p) == [n EXCEPT !.position = p]

\* push(x)
push(n, x) == [n EXCEPT !.kids = Append(@, x)]

\* this[k], undefined past the last child
Child(n, k) == IF IsNode(n) /\ k < Len(n.kids) THEN n.kids[k + 1] ELSE Undefined

\* metadata_from(n) = this -se [it._comments = n._comments, it._position = n._position]:
\* the array of n itself, not a copy of it
metadata_from(it, n) ==
  [it EXCEPT !.comments = n.comments, !.array = n.array, !.position = n.position]

\* a replicate that takes the comments and position of the first child it is given
replicate_from_child(this, d, xs) ==
  [metadata_from(new_node(d, <<>>, Unkept), xs[1]) EXCEPT !.kids = xs]

\* replicate(data, children...): a new node with this node's comments and position; the
\* array the constructor made for it is replaced by metadata_from
replicate(this, d, xs) == [metadata_from(new_node(d, <<>>, Unkept), this) EXCEPT !.kids = xs]

\* the rotation when both new nodes replicate the node rotated
rotate_left_replicating_this(this) ==
  replicate(this, Child(this, 1).data,
            <<replicate(this, this.data, <<Child(this, 0), Child(Child(this, 1), 0)>>),
              Child(Child(this, 1), 1)>>)

\* (op1 left (op2 mid right)) -> (op2 (op1 left mid) right)
rotate_left(this) ==
  replicate(Child(this, 1), Child(this, 1).data,
            <<replicate(this, this.data, <<Child(this, 0), Child(Child(this, 1), 0)>>),
              Child(Child(this, 1), 1)>>)

\* m[this.position()]: an entry of the table for an offset inside it, undefined for any other key
Lookup(m, p) == IF p.t = "offset" /\ p.at < Len(m) THEN m[p.at + 1] ELSE Undefined

\* position_map(m) = this.position(m[this.position()]).each("_.position_map(m)".qf)
RECURSIVE position_map(_, _)
position_map(n, m) ==
  IF ~IsNode(n) THEN TypeError
  ELSE LET mapped == [k \in 1..Len(n.kids) |-> position_map(n.kids[k], m)] IN
       IF \E k \in 1..Len(n.kids) : mapped[k] = TypeError THEN TypeError
       ELSE [n EXCEPT !.position = Lookup(m, @), !.kids = mapped]

\* the entries when a newline is indexed as the last character of its line
RECURSIVE PositionEntriesNewlineOnItsLine(_, _, _, _)
PositionEntriesNewlineOnItsLine(s, k, l, c) ==
  IF k > Len(s) THEN <<>>
  ELSE <<Resolved(l, c + 1)>>
         \o (IF IsNewline(s[k]) THEN PositionEntriesNewlineOnItsLine(s, k + 1, l + 1, 0 - 1)
             ELSE PositionEntriesNewlineOnItsLine(s, k + 1, l, c + 1))

\* the entries for the characters from index k on, l and c being the counters so far
RECURSIVE PositionEntries(_, _, _, _)
PositionEntries(s, k, l, c) ==
  IF k > Len(s) THEN <<>>
  ELSE LET l2 == IF IsNewline(s[k]) THEN l + 1 ELSE l
           c2 == IF IsNewline(s[k]) THEN 0 - 1 ELSE c + 1
       IN <<Resolved(l2, c2)>> \o PositionEntries(s, k + 1, l2, c2)

\* the table when the column counter starts at 0
input_position_map_from_zero(s) == PositionEntries(s, 1, 0, 0)

\* position_map(s) of $.ruby.parse: one {line, column} per character, l = 0 and c = -1 at the start
input_position_map(s) == PositionEntries(s, 1, 0, 0 - 1)

----------------------------------------------------------------------------
(* Parser states and the combinators of caterwaul.parser.  A parser maps   *)
(* the state x of the input s (an offset and the value parsed last) to the *)
(* state after its match.  A state that failed stays failed through every  *)
(* parser after it; a thrown TypeError is caught by no combinator.         *)

Matched(j, v) == [st |-> "ok", pos |-> j, val |-> v]

Failed == [st |-> "fail", pos |-> 0, val |-> Undefined]

Thrown == [st |-> "throw", pos |-> 0, val |-> TypeError]

\* whether the input has the word w at offset i
HasWord(s, i, w) == i + Len(w) <= Len(s) /\ SubSeq(s, i + 1, i + Len(w)) = w

linear_string(w, s, x) ==
  IF x.st # "ok" THEN x
  ELSE IF HasWord(s, x.pos, w) THEN Matched(x.pos + Len(w), Str(w)) ELSE Failed

\* e is the offset the regular expression matches to from the offset of x, or NoMatch;
\* the value of a match is the matched text
linear_regexp(e, s, x) ==
  IF x.st # "ok" THEN x
  ELSE IF e = NoMatch THEN Failed ELSE Matched(e, Str(SubSeq(s, x.pos + 1, e)))

\* optional(p), r being the state of p run from x: a failure of p leaves the offset of x;
\* the value is then not one p made
optional(r, x) ==
  IF x.st # "ok" THEN x ELSE IF r.st = "fail" THEN Matched(x.pos, Undefined) ELSE r

\* alt(p1, ..): rs are the states of the alternatives run from one state, the first that
\* did not fail is taken
alt(rs) ==
  LET live == {k \in DOMAIN rs : rs[k].st # "fail"} IN
  IF live = {} THEN Failed ELSE rs[CHOOSE k \in live : \A j \in live : k <= j]

\* bfc(p1, ..): rs are the states of the parsers, each run from the state before it; the
\* value is the array of their values
bfc(rs) ==
  LET last == rs[Len(rs)] IN
  IF last.st = "ok" THEN Matched(last.pos, Arr([k \in DOMAIN rs |-> rs[k].val])) ELSE last

\* bfs(p1, ..): as bfc, the value being the value of the last parser
bfs(rs) == rs[Len(rs)]

\* p /!many, prev being the state of the match of p before (Failed when there is none) and
\* r the state of p run after it: the state of the last match
many(prev, r) == IF r.st = "fail" THEN prev ELSE r

\* one_of(xs) = alt.apply(null, xs), xs being words *linear_string: the first word of the
\* list that the input has at the offset of x
one_of(words, s, x) ==
  LET here == {k \in DOMAIN words : HasWord(s, x.pos, words[k])}
      k    == CHOOSE j \in here : \A h \in here : j <= h
  IN IF x.st # "ok" THEN x
     ELSE IF here = {} THEN Failed
     ELSE Matched(x.pos + Len(words[k]), Str(words[k]))

----------------------------------------------------------------------------
(* $.ruby.parser: filters, terminals, operator tables, productions.        *)

\* terminal(parser) = parser /-map/ "new node(_)".qf, r being the state of parser
\* (the array made for the node is named by the offset at which the token ended)
terminal(r) == IF r.st = "ok" THEN Matched(r.pos, new_node(r.val.chars, <<>>, r.pos)) ELSE r

\* positional(parser) = parser /-map_state/ "_.value().position(_.position()) -re- _".qf:
\* the node takes the offset of the state that parser returned
positional(r) == IF r.st = "ok" THEN Matched(r.pos, position(r.val, Offset(r.pos))) ELSE r

\* rt(regexp) = regexp /!r /!terminal /!positional
rt(e, s, x) == positional(terminal(linear_regexp(e, s, x)))

whitespace(s, x) == linear_regexp(re_whitespace(s, x.pos), s, x)

line_comment(s, x) == rt(re_line_comment(s, x.pos), s, x)

identifier(s, x) == rt(re_identifier(s, x.pos), s, x)

global(s, x) == rt(re_global(s, x.pos), s, x)

instance_variable(s, x) == rt(re_instance_variable(s, x.pos), s, x)

\* r(/:/) /[identifier /global /-alt/ instance_variable]-bfs/ ... /-map/ "':#{_}'".qf /!terminal
\* "':#{_}'".qf of a node is the text ':' + the node's data
symbol(s, x) ==
  LET text(r)  == IF r.st = "ok" THEN Matched(r.pos, Str(<<":">> \o r.val.data)) ELSE r
      after(c) == terminal(text(bfs(<<c, alt(<<identifier(s, c), global(s, c), instance_variable(s, c)>>)>>)))
  IN after(linear_regexp(re_colon(s, x.pos), s, x))

number(s, x) == rt(re_number(s, x.pos), s, x)

regexp(s, x) == rt(re_regexp(s, x.pos), s, x)

\* line_comment /!many, r being the state of the first line_comment
RECURSIVE many_line_comment(_, _, _)
many_line_comment(s, prev, r) ==
  IF r.st = "ok" THEN many_line_comment(s, r, line_comment(s, r)) ELSE many(prev, r)

\* co(parser), the part before parser: line_comment /!many /!optional
co_before(s, x) ==
  IF x.st # "ok" THEN x ELSE optional(many_line_comment(s, Failed, line_comment(s, x)), x)

\* co(parser), the part after it: /-bfc/ parser /-map/ "_[1].comment(_[0])".qf, c being the
\* state of co_before and r the state of parser run from c.  A value of parser that is a
\* string has no method comment.
co(c, r) ==
  IF c.st # "ok" THEN c
  ELSE IF r.st # "ok" THEN r
  ELSE IF IsNode(r.val) THEN Matched(r.pos, comment(r.val, c.val))
  ELSE Thrown

\* wo(parser) = whitespace /!optional /-bfs/ parser: the state parser runs from
wo(s, x) == optional(whitespace(s, x), x)

\* si(parser) = wo(co(parser)): the state parser runs from; co(c, r) then attaches to its value
si(s, x) == co_before(s, wo(s, x))

literal(s, x) == alt(<<global(s, x), symbol(s, x), number(s, x), regexp(s, x)>>)

precedence_ops1 ==
  <<<<".">>, <<"#">>, <<"u", "!">>, <<"u", "~">>, <<"u", "+">>, <<"#">>, <<"*", "*">>, <<"#">>,
    <<"u", "-">>, <<"#">>, <<"*">>, <<"/">>, <<"%">>, <<"#">>, <<"+">>, <<"-">>, <<"#">>, <<"<", "<">>,
    <<">", ">">>, <<"#">>, <<"&">>, <<"#">>, <<"|">>, <<"^">>, <<"#">>, <<">">>, <<">", "=">>, <<"<">>,
    <<"<", "=">>, <<"#">>, <<"<", "=", ">">>, <<"=", "=">>, <<"=", "=", "=">>, <<"!", "=">>,
    <<"=", "~">>, <<"!", "~">>, <<"#">>, <<"&", "&">>, <<"#">>, <<"|", "|">>, <<"#">>, <<".", ".">>,
    <<".", ".", ".">>, <<"#">>, <<"?">>, <<"#">>>>

\* the statement-level list without its last group, the modifiers
precedence_ops2_without_modifiers ==
  <<<<"r", "e", "s", "c", "u", "e">>, <<"#">>, <<"=">>, <<"+", "=">>, <<"-", "=">>, <<"*", "=">>,
    <<"/", "=">>, <<"%", "=">>, <<"*", "*", "=">>, <<"<", "<", "=">>, <<">", ">", "=">>, <<"&", "=">>,
    <<"^", "=">>, <<"|", "=">>, <<"&", "&", "=">>, <<"|", "|", "=">>, <<"#">>,
    <<"d", "e", "f", "i", "n", "e", "d", "?">>, <<"#">>, <<"n", "o", "t">>, <<"#">>, <<"a", "n", "d">>,
    <<"o", "r">>>>

precedence_ops2 ==
  <<<<"r", "e", "s", "c", "u", "e">>, <<"#">>, <<"=">>, <<"+", "=">>, <<"-", "=">>, <<"*", "=">>,
    <<"/", "=">>, <<"%", "=">>, <<"*", "*", "=">>, <<"<", "<", "=">>, <<">", ">", "=">>, <<"&", "=">>,
    <<"^", "=">>, <<"|", "=">>, <<"&", "&", "=">>, <<"|", "|", "=">>, <<"#">>,
    <<"d", "e", "f", "i", "n", "e", "d", "?">>, <<"#">>, <<"n", "o", "t">>, <<"#">>, <<"a", "n", "d">>,
    <<"o", "r">>, <<"#">>, <<"i", "f">>, <<"u", "n", "l", "e", "s", "s">>, <<"w", "h", "i", "l", "e">>,
    <<"u", "n", "t", "i", "l">>>>
\* the walk when the counter starts at 0
RECURSIVE PrecedenceAfterFromZero(_, _)
PrecedenceAfterFromZero(xs, k) ==
  IF k = 0 THEN 0
  ELSE PrecedenceAfterFromZero(xs, k - 1) + (IF xs[k] = <<"#">> THEN 1 ELSE 0)

\* the value of precedence once the first k words are walked: precedence += x === '#', from 1
RECURSIVE PrecedenceAfter(_, _)
PrecedenceAfter(xs, k) ==
  IF k = 0 THEN 1
  ELSE PrecedenceAfter(xs, k - 1) + (IF xs[k] = <<"#">> THEN 1 ELSE 0)

\* (ops1 + ops2) *[[x, precedence += x === '#']] %[x[0] !== '#'] -object
precedence_of ==
  LET xs == precedence_ops1 \o precedence_ops2 IN
  [x \in {xs[k] : k \in {j \in DOMAIN xs : xs[j] # <<"#">>}} |->
     PrecedenceAfter(xs, CHOOSE k \in DOMAIN xs : xs[k] = x /\ \A j \in DOMAIN xs : xs[j] = x => j <= k)]

\* is(x, in_set) = in_set.hasOwnProperty(x)
is(x, in_set) == x \in in_set

\* set_of(xs) = xs *[[x, true]] -object
set_of(xs) == {xs[k] : k \in DOMAIN xs}

right_associative ==
  set_of(<<<<"u", "!">>, <<"u", "~">>, <<"u", "+">>, <<"*", "*">>, <<"u", "-">>, <<"?">>, <<"=">>,
    <<"+", "=">>, <<"-", "=">>, <<"*", "=">>, <<"/", "=">>, <<"%", "=">>, <<"*", "*", "=">>,
    <<"<", "<", "=">>, <<">", ">", "=">>, <<"&", "=">>, <<"^", "=">>, <<"|", "=">>, <<"&", "&", "=">>,
    <<"|", "|", "=">>, <<"n", "o", "t">>>>)

unary_words ==
  <<<<"~">>, <<"!">>, <<"+">>, <<"-">>, <<"n", "o", "t">>, <<"d", "e", "f", "i", "n", "e", "d", "?">>>>
\* one_of(...) /-map/ "new node(_)".qf /!si
unary_operator(s, x) ==
  LET after(c) == co(c, terminal(one_of(unary_words, s, c))) IN after(si(s, x))

binary_ops1 ==
  <<<<".">>, <<"*", "*">>, <<"*">>, <<"/">>, <<"%">>, <<"+">>, <<"-">>, <<"<", "<">>, <<">", ">">>,
    <<"&">>, <<"|">>, <<"^">>, <<"<">>, <<"<", "=">>, <<">">>, <<">", "=">>, <<"<", "=", ">">>,
    <<"=", "=">>, <<"=", "=", "=">>, <<"!", "=">>, <<"=", "~">>, <<"!", "~">>, <<"&", "&">>,
    <<"|", "|">>, <<".", ".">>, <<".", ".", ".">>, <<"r", "e", "s", "c", "u", "e">>, <<"=">>,
    <<"+", "=">>, <<"-", "=">>, <<"*", "=">>, <<"/", "=">>, <<"%", "=">>, <<"*", "*", "=">>,
    <<"<", "<", "=">>, <<">", ">", "=">>, <<"&", "=">>, <<"^", "=">>, <<"|", "=">>, <<"&", "&", "=">>,
    <<"|", "|", "=">>>>

binary_ops2 ==
  <<<<"a", "n", "d">>, <<"o", "r">>, <<"i", "f">>, <<"u", "n", "l", "e", "s", "s">>,
    <<"w", "h", "i", "l", "e">>, <<"u", "n", "t", "i", "l">>>>
\* one_of(ops1 + ops2) /-map/ "new node(_)".qf /!si
binary_operator(s, x) ==
  LET after(c) == co(c, terminal(one_of(binary_ops1 \o binary_ops2, s, c))) IN after(si(s, x))

\* +precedence_of[n[1].data] + ! is(n.data, right_associative) > precedence_of[n.data]
\* a comparison with the NaN of a word that is no key of precedence_of is false
\* the fixup when the rotation is made for a right operator of a lower level number
fix_precedence_lower_level(n) ==
  IF /\ Child(n, 1).data \in DOMAIN precedence_of
     /\ n.data \in DOMAIN precedence_of
     /\ precedence_of[Child(n, 1).data] - (IF is(n.data, right_associative) THEN 0 ELSE 1)
          < precedence_of[n.data]
  THEN rotate_left(n)
  ELSE n

fix_precedence(n) ==
  IF /\ Child(n, 1).data \in DOMAIN precedence_of
     /\ n.data \in DOMAIN precedence_of
     /\ precedence_of[Child(n, 1).data] + (IF is(n.data, right_associative) THEN 0 ELSE 1)
          > precedence_of[n.data]
  THEN rotate_left(n)
  ELSE n

\* zip_unary(xs) = xs[0].push(xs[1])
zip_unary(xs) == push(xs[1], xs[2])

\* zip_binary(xs) = xs[1].push(xs[0]).push(xs[2])
zip_binary(xs) == push(push(xs[2], xs[1]), xs[3])

\* The state of expression run from x, read from later: the states of expression from the
\* offsets after the one being parsed, the last entry being that of the offset Len(s).
\* expression(states) = expression(states) is used only after a character is consumed.
expression_forward(s, x, later) ==
  IF x.st # "ok" THEN x ELSE later[x.pos - (Len(s) - Len(later))]

\* si(s('(')) /expression /-bfc/ si(s(')')) /-map/ "new node('(', _[1])".qf
group(s, x, later) ==
  LET node(z)        == IF z.st = "ok" THEN Matched(z.pos, new_node(<<"(">>, <<z.val.items[2]>>, z.pos)) ELSE z
      close(a, e, c) == node(bfc(<<a, e, co(c, linear_string(<<")">>, s, c))>>))
      inside(a, e)   == close(a, e, si(s, e))
      open(c)        == co(c, linear_string(<<"(">>, s, c))
      after(a)       == IF a.st # "ok" THEN a ELSE inside(a, expression_forward(s, a, later))
  IN after(open(si(s, x)))

\* identifier /group /instance_variable /-alt/ literal /!si
leaf(s, x, later) ==
  LET after(c) ==
        co(c, alt(<<identifier(s, c), group(s, c, later), instance_variable(s, c), literal(s, c)>>))
  IN after(si(s, x))

\* leaf /binary_operator /-bfc/ expression /-map/ zip_binary /-map/ fix_precedence
binary(s, x, later) ==
  LET fix(z)      == IF z.st = "ok" THEN Matched(z.pos, fix_precedence(zip_binary(z.val.items))) ELSE z
      right(l, o) == fix(bfc(<<l, o, expression_forward(s, o, later)>>))
      operator(l) == IF l.st # "ok" THEN l ELSE right(l, binary_operator(s, l))
  IN operator(leaf(s, x, later))

\* unary_operator /-bfc/ expression /-map/ zip_unary
unary(s, x, later) ==
  LET zip(z)     == IF z.st = "ok" THEN Matched(z.pos, zip_unary(z.val.items)) ELSE z
      operand(o) == zip(bfc(<<o, expression_forward(s, o, later)>>))
  IN operand(unary_operator(s, x))

\* binary /unary /-alt/ leaf /!si
expression(s, x, later) ==
  LET after(c) == co(c, alt(<<binary(s, c, later), unary(s, c, later), leaf(s, c, later)>>))
  IN after(si(s, x))

\* The states of expression from the offsets lo..hi, followed by later, the states from the
\* offsets after hi.  The upper half is made first: the lower half reads it.
RECURSIVE ExpressionFrom(_, _, _, _)
ExpressionFrom(s, lo, hi, later) ==
  IF lo = hi THEN <<expression(s, Matched(lo, Undefined), later)>> \o later
  ELSE LET lower(upper) ==
             IF Len(upper) = Len(later) + (hi - ((lo + hi) \div 2))
             THEN ExpressionFrom(s, lo, (lo + hi) \div 2, upper)
             ELSE <<>>
       IN lower(ExpressionFrom(s, ((lo + hi) \div 2) + 1, hi, later))

\* [new $.parser.linear_string_state(input)] /!$.ruby.parser -re- it[0], with
\* $.ruby.parser = expression (the statements of the other revision are not defined):
\* expression run on the state of the input at offset 0
parser(s) == ExpressionFrom(s, 0, Len(s), <<>>)[1]

----------------------------------------------------------------------------
(* The inputs the model parses.                                            *)

\* the longest input drawn character by character
MaxLen == 4

\* the most line comments in front of an expression
MaxComments == 2

\* the most operators of a chain drawn from ChainOps
MaxChain == 3

RECURSIVE Join(_, _)
Join(words, sep) ==
  IF Len(words) = 0 THEN <<>>
  ELSE IF Len(words) = 1 THEN words[1]
  ELSE words[1] \o sep \o Join(Tail(words), sep)

\* the words of a source text, one space between them
Source(words) == Join(words, <<" ">>)

BinaryOps == set_of(binary_ops1 \o binary_ops2)

\* every text of at most MaxLen characters over these characters
FreeChars == {"a", "\n", "+"}

FreeInputs == UNION {[1..n -> FreeChars] : n \in 0..MaxLen}

\* a op1 b op2 c, for every two binary operators
PairInputs == {Source(<<<<"a">>, o1, <<"b">>, o2, <<"c">>>>) : o1 \in BinaryOps, o2 \in BinaryOps}

\* e1 op e2, for every binary operator
SingleInputs == {Source(<<<<"x">>, o, <<"y">>>>) : o \in BinaryOps}

\* operators of several levels and of both associativities
ChainOps == {<<"*">>, <<"+">>, <<"*", "*">>, <<"=">>, <<"=", "=">>}

ChainLeaves == <<<<"a">>, <<"b">>, <<"c">>, <<"d">>, <<"e">>, <<"f">>>>

\* a o1 b o2 c ..., the operators being os
ChainWords(os) ==
  [k \in 1..(2 * Len(os) + 1) |-> IF k % 2 = 1 THEN ChainLeaves[(k + 1) \div 2] ELSE os[k \div 2]]

ChainInputs == {Source(ChainWords(os)) : os \in UNION {[1..n -> ChainOps] : n \in 1..MaxChain}}

\* k line comments
RECURSIVE CommentLines(_)
CommentLines(k) == IF k = 0 THEN <<>> ELSE <<"#", "h", "i", "\n">> \o CommentLines(k - 1)

CommentInputs ==
  {CommentLines(k) \o e : k \in 0..MaxComments,
                          e \in {<<"f", "o", "o">>, <<"a", " ", "+", " ", "b">>,
                                 <<"a", " ", "+", " ", "b", " ", "+", " ", "c">>, <<"-", "a">>}}

OtherInputs ==
  { <<"a", " ", "+">>, <<"a", " ", "b">>, <<"a", " ", "+", " ", "b", " ", ")">>,
    <<"(", "a", ")">>, <<"a", " ", "*", " ", "(", "b", " ", "+", " ", "c", ")">>,
    <<"a", " ", "*", " ", "-", "b">>, <<"a", " ", "+", " ", "-", "b">>, <<"n", "o", "t", " ", "a">>,
    <<"a", " ", "*", " ", "i", "f">>, <<"a", " ", "*", " ", "b", " ", "+", " ", "o", "r">>,
    <<":", "a">>, <<"a", " ", "+", " ", ":", "b">>, <<"$", "a">>, <<"@", "a", "?">>,
    <<"1", ".", "5">>, <<"/", "a", "/">>, <<"a", " ", "#", "x", "\n", "+", " ", "b">>,
    <<"a", "\n", "+", "\n", "b">>, <<"a", " ", "+", " ", "#", "x", "\n", "#", "y", "\n", "b">>,
    <<"a", " ", "#", "x", "\n", "+", " ", "b", " ", "#", "y", "\n", "*", " ", "c">>,
    <<"a", " ", "*", " ", "(", "#", "x", "\n", "-", "b", ")">> }

\* the keyword forms of the table of forms: alias, module, def and class
AliasInput == <<"a", "l", "i", "a", "s", " ", "v", "1", " ", "v", "2">>

ModuleInput == <<"m", "o", "d", "u", "l", "e", " ", "n", "a", "m", "e", ";", " ", "b", "o", "d", "y", ";", " ", "e", "n", "d">>

DefInput == <<"d", "e", "f", " ", "x", " ", "p", "a", "r", "a", "m", "s", ";", " ", "b", "o", "d", "y", ";", " ", "e", "n", "d">>

ClassInput == <<"c", "l", "a", "s", "s", " ", "n", "a", "m", "e", ";", " ", "b", "o", "d", "y", ";", " ", "e", "n", "d">>

KeywordInputs == {AliasInput, ModuleInput, DefInput, ClassInput}

\* a * u b, for every unary operator u
UnaryInputs == {Source(<<<<"a">>, <<"*">>, u, <<"b">>>>) : u \in set_of(unary_words)}

\* identifiers that are spelled like a word of the precedence table
TableWords == {<<"n", "o", "t">>, <<"a", "n", "d">>, <<"o", "r">>, <<"i", "f">>, <<"r", "e", "s", "c", "u", "e">>}

\* a * w, for every such identifier w
LeafInputs == {Source(<<<<"a">>, <<"*">>, w>>) : w \in TableWords}

\* assignment forms, right-associative and at one level of the precedence table
AssignmentOps == {<<"=">>, <<"+", "=">>, <<"|", "|", "=">>}

\* chains of assignment forms, and chains of **
RightChainInputs ==
  {Source(ChainWords(os)) :
     os \in UNION {[1..n -> AssignmentOps] \cup [1..n -> {<<"*", "*">>}] : n \in 1..MaxChain}}

\* a op1 (b op2 c)
GroupText(o1, o2) == Source(<<<<"a">>, o1, <<"(", "b">>, o2, <<"c", ")">>>>)

\* a group alone, and a group as right operand for operators of several levels
GroupInputs == {<<"(", "a", ")">>} \cup {GroupText(o1, o2) : o1 \in ChainOps, o2 \in ChainOps}

Inputs == FreeInputs \cup PairInputs \cup SingleInputs \cup ChainInputs \cup CommentInputs \cup OtherInputs \cup KeywordInputs \cup UnaryInputs \cup LeafInputs \cup RightChainInputs \cup GroupInputs

----------------------------------------------------------------------------
(* $.ruby.parse(s), step by step.                                          *)

Init ==
  /\ input \in Inputs
  /\ pc = "start"
  /\ tree = Undefined
  /\ endpos = 0
  /\ table = <<>>
  /\ passes = 0
  /\ thrown = Null

\* tree = [new $.parser.linear_string_state(input)] /!$.ruby.parser -re- it[0], then tree.value():
\* the grammar matched and the value of its first state is taken
ParseTree ==
  /\ pc = "start"
  /\ \E r \in {parser(input)} :
       /\ r.st = "ok"
       /\ tree' = r.val
       /\ endpos' = r.pos
  /\ pc' = "parsed"
  /\ UNCHANGED <<input, table, passes, thrown>>

\* the grammar matched nothing, so it[0] is undefined and tree.value() throws, or a map threw
ParseThrows ==
  /\ pc = "start"
  /\ parser(input).st # "ok"
  /\ pc' = "threw"
  /\ thrown' = TypeError
  /\ UNCHANGED <<input, tree, endpos, table, passes>>

\* input /!position_map
BuildTable ==
  /\ pc = "parsed"
  /\ table' = input_position_map(input)
  /\ pc' = "tabled"
  /\ UNCHANGED <<input, tree, endpos, passes, thrown>>

\* tree.value().position_map(table) returns the tree
MapPositions ==
  /\ pc = "tabled"
  /\ position_map(tree, table) # TypeError
  /\ tree' = position_map(tree, table)
  /\ pc' = "returned"
  /\ passes' = 1
  /\ UNCHANGED <<input, endpos, table, thrown>>

\* position_map reaches a child that is undefined and throws
MapThrows ==
  /\ pc = "tabled"
  /\ position_map(tree, table) = TypeError
  /\ pc' = "threw"
  /\ thrown' = TypeError
  /\ UNCHANGED <<input, tree, endpos, table, passes>>

\* the most passes of position_map over one tree
MaxPasses == 2

\* the caller runs position_map(table) on the returned tree again
MapAgain ==
  /\ pc = "returned"
  /\ passes < MaxPasses
  /\ tree' = position_map(tree, table)
  /\ passes' = passes + 1
  /\ UNCHANGED <<input, pc, endpos, table, thrown>>

\* the caller runs rotate_left() on the parsed tree, as fix_precedence does on a reduction;
\* this[1].replicate needs this[1] to be a node
RotateLeft ==
  /\ pc = "parsed"
  /\ IsNode(Child(tree, 1))
  /\ tree' = rotate_left(tree)
  /\ pc' = "rotated"
  /\ UNCHANGED <<input, endpos, table, passes, thrown>>

Next ==
  \/ ParseTree \/ ParseThrows \/ BuildTable \/ MapPositions \/ MapThrows \/ MapAgain
  \/ RotateLeft

Spec == Init /\ [][Next]_vars

----------------------------------------------------------------------------
(* What the properties below read off a tree.                              *)

\* the data and children of a tree, without comments and positions
RECURSIVE Structure(_)
Structure(n) ==
  IF IsNode(n) THEN [data |-> n.data, kids |-> [k \in DOMAIN n.kids |-> Structure(n.kids[k])]]
  ELSE n

\* the structure (d), a leaf
Leaf(d) == [data |-> d, kids |-> <<>>]

\* the structure (d l r)
Binary(d, l, r) == [data |-> d, kids |-> <<l, r>>]

\* the nodes reachable from n through children, n included
RECURSIVE Nodes(_)
Nodes(n) ==
  IF IsNode(n) THEN {n} \cup UNION {Nodes(n.kids[k]) : k \in DOMAIN n.kids} ELSE {}

\* whether p is a {line, column} record of the position table
IsResolved(p) == p.t = "resolved" /\ \E k \in DOMAIN table : table[k] = p

\* op2 binds strictly tighter than op1, or both have one level and op1 is right-associative
NestsRight(op1, op2) ==
  \/ precedence_of[op2] < precedence_of[op1]
  \/ precedence_of[op2] = precedence_of[op1] /\ op1 \in right_associative

\* the tree of a op1 b op2 c by precedence and associativity
Reduced(a, op1, b, op2, c) ==
  IF NestsRight(op1, op2)
  THEN Binary(op1, Leaf(a), Binary(op2, Leaf(b), Leaf(c)))
  ELSE Binary(op2, Binary(op1, Leaf(a), Leaf(b)), Leaf(c))

\* the words of a text, one space between them
Words(s) ==
  LET cuts   == {0, Len(s) + 1} \cup {k \in 1..Len(s) : s[k] = " "}
      Cut(j) == CHOOSE c \in cuts : Cardinality({d \in cuts : d < c}) = j - 1
  IN [j \in 1..(Cardinality(cuts) - 1) |-> SubSeq(s, Cut(j) + 1, Cut(j + 1) - 1)]

\* The tree a precedence and associativity parser makes of the words lo..hi, leaves and
\* binary operators in turn: the root is the loosest operator, the leftmost such when it is
\* right-associative and the rightmost when it is left-associative.
RECURSIVE Reference(_, _, _)
Reference(ws, lo, hi) ==
  IF lo >= hi THEN Leaf(ws[lo])
  ELSE LET ops     == {k \in (lo + 1)..(hi - 1) : (k - lo) % 2 = 1}
           loosest == {k \in ops : \A j \in ops : precedence_of[ws[j]] <= precedence_of[ws[k]]}
           first   == CHOOSE k \in loosest : \A j \in loosest : k <= j
           last    == CHOOSE k \in loosest : \A j \in loosest : j <= k
           root    == IF ws[first] \in right_associative THEN first ELSE last
       IN Binary(ws[root], Reference(ws, lo, root - 1), Reference(ws, root + 1, hi))

\* the comment nodes attached to the nodes of a tree, and to those comment nodes
RECURSIVE CommentNodes(_)
CommentNodes(n) ==
  IF ~IsNode(n) THEN {}
  ELSE LET own == {c \in {n.comments[k] : k \in DOMAIN n.comments} : IsNode(c)} IN
       own \cup UNION {CommentNodes(c) : c \in own}
           \cup UNION {CommentNodes(n.kids[k]) : k \in DOMAIN n.kids}

\* the input holds no comment
NoComment(s) == \A k \in DOMAIN s : s[k] # "#"

----------------------------------------------------------------------------
(* Precedence of two operators, and of longer chains.                      *)

\* C1: 'a op1 b op2 c' reduces to (op1 a (op2 b c)) when op2 binds tighter than op1 or both
\* have one level and op1 is right-associative, and to (op2 (op1 a b) c) otherwise.
C1_TwoOperators ==
  input \in PairInputs =>
    /\ pc # "threw"
    /\ pc = "parsed" =>
         Structure(tree) = Reduced(Words(input)[1], Words(input)[2], Words(input)[3],
                                   Words(input)[4], Words(input)[5])

\* C2: leaves joined by three or more binary operators parse to the tree of a reference
\* precedence and associativity parser.
C2_Chains ==
  (input \in ChainInputs /\ Len(Words(input)) >= 7) =>
    /\ pc # "threw"
    /\ pc = "parsed" => Structure(tree) = Reference(Words(input), 1, Len(Words(input)))

----------------------------------------------------------------------------
(* Positions and comments of the returned tree.                            *)

\* C3: after parse returns, every node reachable through children has a {line, column}
\* record of the position table as its position.
C3_EveryNodeResolved ==
  (pc = "returned" /\ passes = 1) => \A n \in Nodes(tree) : IsResolved(n.position)

\* C4: after parse returns, every comment node attached to a node of the tree, comments of
\* comments included, has a {line, column} record of the position table as its position.
C4_EveryCommentResolved ==
  (pc = "returned" /\ passes = 1) => \A c \in CommentNodes(tree) : IsResolved(c.position)

\* C5: for an input without a comment, comments() of every node of the returned tree is empty.
C5_NoCommentNoComments ==
  (pc = "returned" /\ NoComment(input)) => \A n \in Nodes(tree) : Len(comments(n)) = 0

\* C6: k >= 1 line comments in front of an expression are the elements of comments() of its
\* node, in source order, each once.
C6_CommentsInOrder ==
  \A k \in 1..MaxComments :
    (pc = "parsed" /\ input = CommentLines(k) \o <<"f", "o", "o">>) =>
      /\ Len(comments(tree)) = k
      /\ \A j \in 1..k : /\ IsNode(comments(tree)[j])
                         /\ comments(tree)[j].data = <<"#", "h", "i", "\n">>

\* C7: parse returns a tree only when the grammar consumed the whole input; whitespace may
\* follow the expression.
C7_WholeInputConsumed ==
  pc \in {"parsed", "tabled", "returned"} =>
    \A k \in (endpos + 1)..Len(input) : input[k] \in SpaceChars

----------------------------------------------------------------------------
(* The position table.                                                     *)

\* C8 as the specification states it: the entry of offset 0 is {line: 0, column: 0} for
\* every input.
C8_EntryZeroAlways ==
  (pc = "tabled" /\ Len(input) > 0) => table[1] = Resolved(0, 0)

\* C8: the entry of offset 0 is {line: 0, column: 0} when the first character is no newline,
\* and {line: 1, column: -1} when it is one.
C8_EntryZero ==
  (pc = "tabled" /\ Len(input) > 0) =>
    table[1] = IF IsNewline(input[1]) THEN Resolved(1, 0 - 1) ELSE Resolved(0, 0)

\* the table is built for an input whose first character is a newline
C8_Witness == pc = "tabled" /\ Len(input) > 0 /\ IsNewline(input[1])

\* C9 as the specification states it: a newline at offset k has column -1, and the entry of
\* k+1 has column 0 and the line of the entry of k-1 plus one, whatever the neighbours are.
\* (The character at offset k is input[k + 1], its entry table[k + 1].)
C9_AfterNewlineAlways ==
  pc = "tabled" =>
    \A k \in 0..(Len(input) - 1) :
      IsNewline(input[k + 1]) =>
        /\ table[k + 1].column = 0 - 1
        /\ k + 1 < Len(input) =>
             /\ table[k + 2].column = 0
             /\ k >= 1 => table[k + 2].line = table[k].line + 1

\* C9: a newline at offset k has column -1 and the line of the entry of k-1 plus one (line 1
\* at offset 0); the entry of k+1 has column 0 and the line of the newline when the character
\* at k+1 is no newline, and column -1 and the next line when it is one.
C9_AfterNewline ==
  pc = "tabled" =>
    \A k \in 0..(Len(input) - 1) :
      IsNewline(input[k + 1]) =>
        /\ table[k + 1].column = 0 - 1
        /\ table[k + 1].line = IF k >= 1 THEN table[k].line + 1 ELSE 1
        /\ k + 1 < Len(input) =>
             IF IsNewline(input[k + 2])
             THEN table[k + 2] = Resolved(table[k + 1].line + 1, 0 - 1)
             ELSE table[k + 2] = Resolved(table[k + 1].line, 0)

\* the table is built for an input with two newlines in a row
C9_Witness ==
  /\ pc = "tabled"
  /\ \E k \in 1..(Len(input) - 1) : IsNewline(input[k]) /\ IsNewline(input[k + 1])

\* C10: a second position_map with the same table leaves every position as the first set it.
C10_SecondPassKeeps == [][(pc = "returned" /\ passes' = passes + 1) => tree' = tree]_vars

\* the words a node made by the unary production or by a group carries
UnaryData == set_of(unary_words) \cup {<<"(">>}

\* n has the number of children its data allows (none, or two under a binary operator, or
\* one under a unary operator or a group), and every child slot holds a node
WellFormed(n) ==
  /\ \A k \in DOMAIN n.kids : IsNode(n.kids[k])
  /\ \/ Len(n.kids) = 0
     \/ Len(n.kids) = 2 /\ n.data \in BinaryOps
     \/ Len(n.kids) = 1 /\ n.data \in UnaryData

\* C11: in every tree the parser returns a terminal has no children, a node of the binary
\* production (rotated or not) has exactly two, a node of the unary production or a group
\* has exactly one, and no child slot is undefined.
C11_Arity == pc = "parsed" => \A n \in Nodes(tree) : WellFormed(n)

\* n has the shape (op1 left (op2 mid right)), every operand being a node
Rotatable(n) ==
  /\ IsNode(n) /\ Len(n.kids) = 2
  /\ IsNode(n.kids[1]) /\ IsNode(n.kids[2]) /\ Len(n.kids[2].kids) = 2
  /\ IsNode(n.kids[2].kids[1]) /\ IsNode(n.kids[2].kids[2])

\* (op2 (op1 left mid) right) where each operator node keeps all it had but its children
Rotated(n) ==
  [n.kids[2] EXCEPT !.kids = <<[n EXCEPT !.kids = <<n.kids[1], n.kids[2].kids[1]>>],
                               n.kids[2].kids[2]>>]

\* C12: rotate_left on (op1 left (op2 mid right)) returns (op2 (op1 left mid) right): the op2
\* node has the comments and the raw offset of the op2 node it came from, the op1 node those
\* of the op1 node, and left, mid and right are the nodes they were; no comment is lost or
\* held twice.
C12_RotateKeepsMetadata ==
  [][(pc = "parsed" /\ pc' = "rotated" /\ Rotatable(tree)) => tree' = Rotated(tree)]_vars

\* a tree was rotated into (op2 (op1 left mid) right) whose two operator nodes each hold a
\* comment node, the two being different comments
C12_Witness ==
  /\ pc = "rotated"
  /\ Len(tree.kids) = 2 /\ IsNode(tree.kids[1]) /\ IsNode(tree.kids[2])
  /\ Len(tree.kids[1].kids) = 2
  /\ tree.comments # tree.kids[1].comments
  /\ \E k \in DOMAIN tree.comments : IsNode(tree.comments[k])
  /\ \E k \in DOMAIN tree.kids[1].comments : IsNode(tree.kids[1].comments[k])

\* C13: for every operator op that binary_operator accepts, a modifier or an operator that
\* another listed operator is a proper prefix of included, 'e1 op e2' parses to a node whose
\* data is op and whose children are e1 and e2.
C13_EveryOperator ==
  \A o \in BinaryOps :
    input = Source(<<<<"x">>, o, <<"y">>>>) =>
      /\ pc # "threw"
      /\ pc = "parsed" => Structure(tree) = Binary(o, Leaf(<<"x">>), Leaf(<<"y">>))

\* a node with the data and the children given
Form(d, xs) == [data |-> d, kids |-> xs]

\* C14: 'alias v1 v2' gives (alias v1 v2), 'module name; body; end' gives (module name body),
\* 'def x params; body; end' gives (def x params body) and 'class name; body; end' gives
\* (class name () body), () being a node without children.
C14_KeywordForms ==
  pc = "parsed" =>
    /\ input = AliasInput =>
         Structure(tree) = Form(<<"a", "l", "i", "a", "s">>, <<Leaf(<<"v", "1">>), Leaf(<<"v", "2">>)>>)
    /\ input = ModuleInput =>
         Structure(tree) = Form(<<"m", "o", "d", "u", "l", "e">>,
                                <<Leaf(<<"n", "a", "m", "e">>), Leaf(<<"b", "o", "d", "y">>)>>)
    /\ input = DefInput =>
         Structure(tree) = Form(<<"d", "e", "f">>,
                                <<Leaf(<<"x">>), Leaf(<<"p", "a", "r", "a", "m", "s">>),
                                  Leaf(<<"b", "o", "d", "y">>)>>)
    /\ input = ClassInput =>
         /\ Structure(tree).data = <<"c", "l", "a", "s", "s">>
         /\ Len(Structure(tree).kids) = 3
         /\ Structure(tree).kids[1] = Leaf(<<"n", "a", "m", "e">>)
         /\ Structure(tree).kids[2].kids = <<>>
         /\ Structure(tree).kids[3] = Leaf(<<"b", "o", "d", "y">>)

\* the characters of s from offset k on begin with the word w
StartsAt(s, k, w) == k + Len(w) <= Len(s) /\ SubSeq(s, k + 1, k + Len(w)) = w

\* C15: the raw offset a terminal node records is the offset of the first character of its
\* token: the text of the node stands in the input from that offset on ('foo' of
\* '#hi\nfoo' records 4, the offset of 'f').
C15_OffsetOfFirstCharacter ==
  pc = "parsed" =>
    \A n \in Nodes(tree) \cup CommentNodes(tree) :
      (Len(n.kids) = 0 /\ n.position.t = "offset") => StartsAt(input, n.position.at, n.data)

\* C16: when no alternative of the grammar matches, the failure parse reports carries the
\* furthest offset of the input that was reached; at the least it carries an offset of the
\* input.
C16_FailureCarriesOffset ==
  (pc = "threw" /\ tree = Undefined /\ parser(input).st = "fail") =>
    /\ "offset" \in DOMAIN thrown
    /\ thrown.offset \in 0..Len(input)

\* x binds tighter than y: it stands at an earlier level of the precedence table
Tighter(x, y) == precedence_of[x] < precedence_of[y]

\* x and y stand at one level of the precedence table
SameLevel(x, y) == precedence_of[x] = precedence_of[y]

\* the text is 'a op1 b op2 c' and the parse read all of it, so the binary production
\* reduced (op1 a (op2 b c))
ReducedPair(o1, o2) ==
  /\ pc = "parsed"
  /\ input = Source(<<<<"a">>, o1, <<"b">>, o2, <<"c">>>>)
  /\ endpos = Len(input)

\* (op1 a (op2 b c)), the tree the reduction starts from
Unrotated(o1, o2) == Binary(o1, Leaf(<<"a">>), Binary(o2, Leaf(<<"b">>), Leaf(<<"c">>)))

\* (op2 (op1 a b) c), the tree rotated left
RotatedLeft(o1, o2) == Binary(o2, Binary(o1, Leaf(<<"a">>), Leaf(<<"b">>)), Leaf(<<"c">>))

\* C17 as the specification states it: the reduction of (op1 left (op2 mid right)) rotates
\* left when op2 binds tighter than op1, or as tightly and op1 is left-associative.
C17_RotatesWhenTighter ==
  \A o1 \in BinaryOps, o2 \in BinaryOps :
    (ReducedPair(o1, o2) /\ (Tighter(o2, o1) \/ (SameLevel(o1, o2) /\ ~is(o1, right_associative))))
      => Structure(tree) = RotatedLeft(o1, o2)

\* C17: the reduction of (op1 left (op2 mid right)) rotates left to (op2 (op1 left mid) right)
\* when op2 binds looser than op1, or as tightly and op1 is left-associative; in every other
\* case the tree stays (op1 left (op2 mid right)).
C17_RotatesWhenLooser ==
  \A o1 \in BinaryOps, o2 \in BinaryOps :
    ReducedPair(o1, o2) =>
      Structure(tree) = IF Tighter(o1, o2) \/ (SameLevel(o1, o2) /\ ~is(o1, right_associative))
                        THEN RotatedLeft(o1, o2)
                        ELSE Unrotated(o1, o2)

\* 'a * b + c' was reduced and rotated, and 'a + b + c' at one level too
C17_Witness ==
  \/ ReducedPair(<<"*">>, <<"+">>) /\ Structure(tree) = RotatedLeft(<<"*">>, <<"+">>)
  \/ ReducedPair(<<"+">>, <<"+">>) /\ Structure(tree) = RotatedLeft(<<"+">>, <<"+">>)

\* C18: the fixup never restructures a node of the unary production: when the right operand
\* of a binary reduction is a unary node, for any of ~ ! + - not defined?, the result is
\* (op1 left (unary operand)) and the unary node keeps its one child.
C18_UnaryOperandKept ==
  \A u \in set_of(unary_words) :
    (pc = "parsed" /\ input = Source(<<<<"a">>, <<"*">>, u, <<"b">>>>)) =>
      Structure(tree) = Binary(<<"*">>, Leaf(<<"a">>), Form(u, <<Leaf(<<"b">>)>>))

\* C19: when the right operand of a binary reduction is a leaf the fixup returns the node
\* as it is, whatever the leaf is called, an identifier spelled like a word of the
\* precedence table (not, and, or, if, rescue) included.
C19_LeafOperandKept ==
  \A w \in TableWords :
    (pc = "parsed" /\ input = Source(<<<<"a">>, <<"*">>, w>>)) =>
      Structure(tree) = Binary(<<"*">>, Leaf(<<"a">>), Leaf(w))

\* (op a1 (op a2 (... (op a(n-1) an)))) of the words a1 op a2 ... an, from the k-th word on
RECURSIVE RightNested(_, _)
RightNested(ws, k) ==
  IF k >= Len(ws) THEN Leaf(ws[k])
  ELSE Binary(ws[k + 1], Leaf(ws[k]), RightNested(ws, k + 2))

\* C20: a chain a1 op a2 op ... op an, n >= 2, of right-associative operators at one
\* precedence level (** or the assignment forms) is returned fully right-nested, no
\* reduction having rotated.
C20_RightChains ==
  input \in RightChainInputs =>
    /\ pc # "threw"
    /\ pc = "parsed" => Structure(tree) = RightNested(Words(input), 1)

\* C21: '( e )' parses to a node '(' whose one child is the tree of e, and the fixup never
\* rotates into a group that is a right operand: 'a op1 (b op2 c)' gives
\* (op1 a ('(' (op2 b c))) for every op1 and op2.
C21_Groups ==
  /\ input = <<"(", "a", ")">> =>
       /\ pc # "threw"
       /\ pc = "parsed" => Structure(tree) = Form(<<"(">>, <<Leaf(<<"a">>)>>)
  /\ \A o1 \in ChainOps, o2 \in ChainOps :
       input = GroupText(o1, o2) =>
         /\ pc # "threw"
         /\ pc = "parsed" =>
              Structure(tree) = Binary(o1, Leaf(<<"a">>),
                                       Form(<<"(">>, <<Binary(o2, Leaf(<<"b">>), Leaf(<<"c">>))>>))

\* the expression-level list followed by the statement-level list
PrecedenceWords == precedence_ops1 \o precedence_ops2

\* the number of boundary markers before the k-th word
MarkersBefore(k) == Cardinality({j \in 1..(k - 1) : PrecedenceWords[j] = <<"#">>})

\* the levels are 1 plus the number of boundary markers before the symbol
LevelsCountMarkers ==
  /\ \A k \in DOMAIN PrecedenceWords :
       PrecedenceWords[k] # <<"#">> =>
         /\ PrecedenceWords[k] \in DOMAIN precedence_of
         /\ precedence_of[PrecedenceWords[k]] = 1 + MarkersBefore(k)
  /\ \A j \in DOMAIN PrecedenceWords, k \in DOMAIN PrecedenceWords :
       (j < k /\ PrecedenceWords[j] # <<"#">> /\ PrecedenceWords[k] # <<"#">>) =>
         IF \E m \in (j + 1)..(k - 1) : PrecedenceWords[m] = <<"#">>
         THEN precedence_of[PrecedenceWords[j]] < precedence_of[PrecedenceWords[k]]
         ELSE precedence_of[PrecedenceWords[j]] = precedence_of[PrecedenceWords[k]]
  /\ precedence_of[<<".">>] = 1
  /\ <<"#">> \notin DOMAIN precedence_of

\* C22: in the table every parse reduces by, the level of every symbol is 1 plus the number
\* of boundary markers '#' before it in the two lists joined, so symbols between two
\* boundaries share a level and a symbol after a boundary has a greater level than every
\* symbol before it; '.' has level 1, and the marker is no key of the table.
C22_LevelsCountMarkers == pc = "parsed" => LevelsCountMarkers

\* the table was read for two operators of different levels: 'a + b * c' was reduced and
\* kept as (+ a (* b c))
C22_Witness ==
  /\ ReducedPair(<<"+">>, <<"*">>)
  /\ Structure(tree) = Unrotated(<<"+">>, <<"*">>)
  /\ precedence_of[<<"*">>] < precedence_of[<<"+">>]

\* a parser state at offset k
At(k) == Matched(k, Undefined)

\* the state r, reached from offset k, is a match that consumed at least one character
Consumes(k, r) == r.st = "ok" => r.pos > k

\* C23: parse terminates on every finite input, because each recursion and each repetition
\* is entered only after at least one character was consumed: at every offset of the input
\* the line comment that many repeats, the operator that binary recurses after, the operator
\* that unary recurses after and the bracket that group recurses after consume at least one
\* character when they match, so the rest of the input shrinks at each of these steps.
C23_EveryRecursionConsumes ==
  pc \in {"start", "parsed", "threw"} =>
    /\ \A k \in 0..Len(input) : Consumes(k, line_comment(input, At(k)))
    /\ \A k \in 0..Len(input) :
         /\ Consumes(k, binary_operator(input, At(k)))
         /\ Consumes(k, unary_operator(input, At(k)))
         /\ Consumes(k, linear_string(<<"(">>, input, At(k)))

\* the parse of an input has ended in which a binary operator, a unary operator, a bracket
\* and a line comment each match at some offset
C23_Witness ==
  /\ pc \in {"parsed", "threw"}
  /\ \E k \in 0..Len(input) : binary_operator(input, At(k)).st = "ok"
  /\ \E k \in 0..Len(input) : unary_operator(input, At(k)).st = "ok"
  /\ \E k \in 0..Len(input) : linear_string(<<"(">>, input, At(k)).st = "ok"
  /\ \E k \in 0..Len(input) : line_comment(input, At(k)).st = "ok"

\* the arrays held by the nodes of n, its comment nodes included, one entry for each node
RECURSIVE ArraysOf(_), ArraysOfAll(_)
ArraysOf(n) ==
  IF ~IsNode(n) THEN <<>>
  ELSE <<n.array>> \o ArraysOfAll(n.kids) \o ArraysOfAll(n.comments)

ArraysOfAll(xs) == IF xs = <<>> THEN <<>> ELSE ArraysOf(Head(xs)) \o ArraysOfAll(Tail(xs))

\* no array stands twice in as
AllDifferent(as) == \A i \in DOMAIN as, j \in DOMAIN as : i # j => as[i] # as[j]

\* C24: no two distinct nodes of a tree share one comments array, whatever reductions,
\* rotations (replicate, metadata_from) and comment attachments made the tree, so a comment
\* attached to one node shows in comments() of that node only.
C24_NoSharedComments == pc \in {"parsed", "rotated"} => AllDifferent(ArraysOf(tree))

\* a tree with a comment node whose binary production rotated, so that both operator nodes
\* were made by replicate and a comment was attached to the new root afterwards
C24_Witness ==
  /\ pc = "parsed"
  /\ Structure(tree) = RotatedLeft(<<"+">>, <<"+">>)
  /\ \E k \in DOMAIN tree.comments : IsNode(tree.comments[k])

\* the leaves and operator tags of n in order: left subtree, operator, right subtree
RECURSIVE InOrder(_)
InOrder(n) ==
  IF ~IsNode(n) THEN <<>>
  ELSE IF Len(n.kids) = 2 THEN InOrder(n.kids[1]) \o <<n.data>> \o InOrder(n.kids[2])
  ELSE IF Len(n.kids) = 1 THEN <<n.data>> \o InOrder(n.kids[1])
  ELSE <<n.data>>

\* C25: for an expression of leaves and binary operators the leaves and operator tags of the
\* returned tree, read in order, are the words of the source from left to right, whatever
\* rotations were made: none is moved, dropped or doubled.
C25_InOrderIsSource ==
  (pc = "parsed" /\ input \in PairInputs \cup ChainInputs) => InOrder(tree) = Words(input)

\* w is a key of the precedence table and its level is an integer, 1 at the least
HasLevel(w) == w \in DOMAIN precedence_of /\ precedence_of[w] \in Nat \ {0}

\* C26: every symbol the binary-operator terminal can make the tag of a node is a key of the
\* precedence table with an integer level: each word of its list is, and so is the tag of
\* the node it makes wherever it matches in an input, so the comparison of the fixup reads
\* a level for the outer operator and for a binary right operand.
C26_EveryOperatorHasLevel ==
  pc \in {"start", "parsed"} =>
    /\ \A o \in BinaryOps : HasLevel(o)
    /\ \A k \in 0..Len(input) :
         binary_operator(input, At(k)).st = "ok" => HasLevel(binary_operator(input, At(k)).val.data)

\* 'a if b . c' was reduced: the fixup compared the levels of the loosest and the tightest
\* operator
C26_Witness ==
  /\ ReducedPair(<<"i", "f">>, <<".">>)
  /\ HasLevel(tree.data) /\ HasLevel(tree.kids[2].data)
  /\ tree.data = <<"i", "f">> /\ tree.kids[2].data = <<".">>

====
